---- MODULE Spec2Model ----
(***************************************************************************)
(* GitSignal, src/lib/github.ts: the fetch-and-aggregate operations that   *)
(* walk the pages of a GitHub endpoint and turn the fetched records into   *)
(* weekly series.                                                          *)
(*                                                                         *)
(* Each operation is an async function; it is modelled as a task that      *)
(* moves between its suspension points (the awaited fetch).  The server's  *)
(* answers, the wall clock and the local time zone are the environment.    *)
(*                                                                         *)
(* A Date is [s |-> whole seconds since the epoch, ms |-> 0..999], so that *)
(* Math.floor(d.getTime() / 1000) is d.s and Date comparison is            *)
(* lexicographic.  A timestamp string of a record is modelled by the       *)
(* second it denotes (GitHub's ISO strings have second precision);         *)
(* NoTimestamp stands for a null, empty or absent field.                   *)
(*                                                                         *)
(* A response body that is an array of `length` records is modelled by the *)
(* records that carry data (`items`, the first Len(items) records of the   *)
(* array) followed by length - Len(items) records that carry no timestamp  *)
(* field; such a record passes none of the truthiness tests of the         *)
(* forEach bodies, so the array is never spelled out.                      *)
(***************************************************************************)
EXTENDS Integers, Sequences, FiniteSets, TLC

VARIABLES
    clock,             \* the wall clock: what new Date() / Date.now() returns
    op,                \* op[t]: the exported function task t runs
    pc,                \* pc[t]: idle, loop, await, resolved, rejected
    maxPages,          \* maxPages[t]: the maxPages argument
    page,              \* page[t]: let page
    hasMore,           \* hasMore[t]: let hasMore
    dates,             \* dates[t]: starDates / issueDates / closedDates
    fiftyTwoWeeksAgo,  \* fiftyTwoWeeksAgo[t]: the horizon Date of the issue operations
    invokedAt,         \* invokedAt[t]: the clock value new Date() returned at invocation
    now,               \* now[t]: Math.floor(Date.now() / 1000) read after the loop
    requested,         \* requested[t]: the page numbers of the fetches issued, in order
    received,          \* received[t]: the responses received, in order
    result,            \* result[t]: the value the promise resolved with
    error              \* error[t]: the error the promise rejected with

vars == <<clock, op, pc, maxPages, page, hasMore, dates, fiftyTwoWeeksAgo,
          invokedAt, now, requested, received, result, error>>

----------------------------------------------------------------------------
(* Bounds of the model *)

\* tasks that may run; Spec starts only task 1
NumTasks == 2
\* the week the wall clock is in or next to
BaseWeek == 60
\* how many responses of one operation may be full pages
MaxFullPages == 2
\* how many records carrying data the pages of one operation hold together
MaxEvents == 2
\* how many contributor records / commit-activity weeks a stats body holds
MaxContributors == 2

TaskIds == 1..NumTasks

----------------------------------------------------------------------------
(* Program constants *)

secondsPerWeek == 7 * 24 * 60 * 60
secondsPerDay == 24 * 60 * 60
PerPage == 100
DefaultMaxPages == 10
DaysBack == 52 * 7

Base == BaseWeek * secondsPerWeek

----------------------------------------------------------------------------
(* Dates *)

NoTimestamp == -1
NoDate == [s |-> -1, ms |-> 0]

\* new Date(isoString)
ParseDate(ts) == [s |-> ts, ms |-> 0]

\* Math.floor(date.getTime() / 1000)
GetTimeSec(d) == d.s

\* a >= b on Dates (compares getTime())
DateGE(a, b) == a.s > b.s \/ (a.s = b.s /\ a.ms >= b.ms)

\* JavaScript's %: the sign of the result is the sign of the dividend
JsMod(a, b) == IF a >= 0 THEN a % b ELSE -((-a) % b)

\* a bucket cut at the day instead of the week
WeekStart_DayAligned(timestamp) == timestamp - JsMod(timestamp, secondsPerDay)

\* timestamp - (timestamp % secondsPerWeek)
WeekStart(timestamp) == timestamp - JsMod(timestamp, secondsPerWeek)

\* d.setDate(d.getDate() - days): the local calendar date moves back by
\* `days` days and the local time of day is kept, so the instant moves back
\* by days * 86400 seconds corrected by the change of the local UTC offset
\* between the two calendar days (offsetChange, 0 when both days have the
\* same offset).
SetDateBack(d, days, offsetChange) ==
    [s |-> d.s - days * secondsPerDay + offsetChange, ms |-> d.ms]

----------------------------------------------------------------------------
(* Arrays, Maps and the loops over them *)

\* starDates.sort((a, b) => a.getTime() - b.getTime()): ascending, stable
DateLE(a, b) == a.s < b.s \/ (a.s = b.s /\ a.ms <= b.ms)

RECURSIVE InsertSorted(_, _)
InsertSorted(d, sorted) ==
    IF sorted = <<>> THEN <<d>>
    ELSE IF DateLE(sorted[Len(sorted)], d) THEN Append(sorted, d)
    ELSE Append(InsertSorted(d, SubSeq(sorted, 1, Len(sorted) - 1)),
                sorted[Len(sorted)])

RECURSIVE SortDates(_)
SortDates(ds) ==
    IF ds = <<>> THEN <<>>
    ELSE InsertSorted(ds[Len(ds)], SortDates(SubSeq(ds, 1, Len(ds) - 1)))

\* Array.from(allWeeks).sort((a, b) => a - b)
RECURSIVE SortWeeks(_)
SortWeeks(ws) ==
    IF ws = {} THEN <<>>
    ELSE LET least == CHOOSE w \in ws : \A v \in ws : w <= v
         IN  <<least>> \o SortWeeks(ws \ {least})

\* new Map<number, number>()
EmptyMap == [k \in {} |-> 0]
\* map.get(k) || 0
MapGet(m, k) == IF k \in DOMAIN m THEN m[k] ELSE 0
\* map.set(k, v)
MapSet(m, k, v) == [x \in DOMAIN m \cup {k} |-> IF x = k THEN v ELSE m[x]]

\* dates.forEach((date) => { ...; weekTo.set(weekStart, (weekTo.get(weekStart) || 0) + 1) })
RECURSIVE CountWeeks(_, _)
CountWeeks(ds, weekTo) ==
    IF ds = <<>> THEN weekTo
    ELSE LET weekStart == WeekStart(GetTimeSec(Head(ds)))
         IN  CountWeeks(Tail(ds),
                        MapSet(weekTo, weekStart, MapGet(weekTo, weekStart) + 1))

\* a loop that emits the weeks that have stars only
StarWeeks_NoZeroFill(weekStart, currentWeekStart, weekToStars) ==
    LET weeks == SortWeeks({w \in DOMAIN weekToStars :
                                weekStart <= w /\ w <= currentWeekStart})
    IN  [i \in 1..Len(weeks) |-> [week |-> weeks[i], stars |-> weekToStars[weeks[i]]]]

\* while (weekStart <= currentWeekStart) { result.push({week, stars}); weekStart += secondsPerWeek }
RECURSIVE StarWeeks(_, _, _)
StarWeeks(weekStart, currentWeekStart, weekToStars) ==
    IF weekStart <= currentWeekStart
    THEN <<[week |-> weekStart, stars |-> MapGet(weekToStars, weekStart)]>>
         \o StarWeeks(weekStart + secondsPerWeek, currentWeekStart, weekToStars)
    ELSE <<>>

\* a loop that stops before the current week
RECURSIVE IssueWeeks_ExclusiveEnd(_, _, _)
IssueWeeks_ExclusiveEnd(weekStart, currentWeekStart, weekToIssues) ==
    IF weekStart < currentWeekStart
    THEN <<[week |-> weekStart, issues |-> MapGet(weekToIssues, weekStart)]>>
         \o IssueWeeks_ExclusiveEnd(weekStart + secondsPerWeek, currentWeekStart,
                                    weekToIssues)
    ELSE <<>>

\* while (weekStart <= currentWeekStart) { result.push({week, issues}); weekStart += secondsPerWeek }
RECURSIVE IssueWeeks(_, _, _)
IssueWeeks(weekStart, currentWeekStart, weekToIssues) ==
    IF weekStart <= currentWeekStart
    THEN <<[week |-> weekStart, issues |-> MapGet(weekToIssues, weekStart)]>>
         \o IssueWeeks(weekStart + secondsPerWeek, currentWeekStart, weekToIssues)
    ELSE <<>>

----------------------------------------------------------------------------
(* Responses *)

\* response.ok
Ok(status) == status >= 200 /\ status <= 299

\* a test that throws for the two statuses the code names only
PageFails_KnownErrorsOnly(response) == response.status \in {404, 403}

\* if (!response.ok) in the loop of a paginated operation
PageFails(response) == ~Ok(response.status)

\* a body that is not an array (an object such as {})
NotArray == [isArray |-> FALSE, length |-> 0, items |-> <<>>]
ArrayOf(n, items) == [isArray |-> TRUE, length |-> n, items |-> items]

\* !Array.isArray(data) || data.length === 0
NoData(data) == ~data.isArray \/ data.length = 0

\* the owner and name arguments of every call
RepoOwner == "octocat"
RepoName == "hello"

\* the errors thrown under if (!response.ok): an Error carries the name
\* "Error" and the message it was constructed with
NotFoundError(owner, name) ==
    [name |-> "Error",
     message |-> "Repository " \o owner \o "/" \o name \o " not found"]
RateLimitError ==
    [name |-> "Error", message |-> "GitHub API rate limit exceeded. Try again later."]
FailedError(what, statusText) ==
    [name |-> "Error", message |-> "Failed to fetch " \o what \o ": " \o statusText]
StatsComputingError == [name |-> "StatsComputingError", message |-> "Stats are being computed"]
NoError == [name |-> "", message |-> ""]

\* what the last message of an operation says it failed to fetch
Resource(o) ==
    CASE o = "fetchRepoInfo" -> "repository"
      [] o = "fetchCommitActivity" -> "commit activity"
      [] o = "fetchContributorsOverTime" -> "contributors"
      [] o = "fetchStarHistory" -> "star history"
      [] OTHER -> "issues"

\* an error block that has no test for status 403
HttpError_NoRateLimit(o, response) ==
    IF response.status = 404 THEN NotFoundError(RepoOwner, RepoName)
    ELSE FailedError(Resource(o), response.statusText)

\* the if (!response.ok) block of fetchRepoInfo and of the paginated operations
HttpError(o, response) ==
    IF response.status = 404 THEN NotFoundError(RepoOwner, RepoName)
    ELSE IF response.status = 403 THEN RateLimitError
    ELSE FailedError(Resource(o), response.statusText)

\* the if (!response.ok) block of fetchCommitActivity and fetchContributorsOverTime
StatsHttpError(o, response) ==
    IF response.status = 404 THEN NotFoundError(RepoOwner, RepoName)
    ELSE IF response.status = 403 THEN RateLimitError
    ELSE IF response.status = 202 THEN StatsComputingError
    ELSE FailedError(Resource(o), response.statusText)

----------------------------------------------------------------------------
(* The loop bodies of the paginated operations *)

Paginated == {"fetchStarHistory", "fetchIssuesOverTime", "fetchIssuesClosedOverTime"}
IssueOps == {"fetchIssuesOverTime", "fetchIssuesClosedOverTime"}
StatsOps == {"fetchCommitActivity", "fetchContributorsOverTime"}
Operations == {"fetchRepoInfo"} \cup StatsOps \cup Paginated

\* a string field is truthy when it is present and not empty
Truthy(ts) == ts # NoTimestamp

\* data.forEach((star) => { if (star.starred_at) starDates.push(new Date(star.starred_at)) })
RECURSIVE StarsForEach(_, _)
StarsForEach(items, starDates) ==
    IF items = <<>> THEN starDates
    ELSE StarsForEach(Tail(items),
             IF Truthy(Head(items).starred_at)
             THEN Append(starDates, ParseDate(Head(items).starred_at))
             ELSE starDates)

\* a filter without the pull-request test
OpenedAccepted_CountsPullRequests(issue, horizon) ==
    /\ Truthy(issue.created_at)
    /\ DateGE(ParseDate(issue.created_at), horizon)

\* !issue.pull_request && issue.created_at, then createdAt >= fiftyTwoWeeksAgo
OpenedAccepted(issue, horizon) ==
    /\ ~issue.pull_request
    /\ Truthy(issue.created_at)
    /\ DateGE(ParseDate(issue.created_at), horizon)

\* a filter without the horizon test
ClosedAccepted_NoHorizon(issue, horizon) ==
    /\ ~issue.pull_request
    /\ Truthy(issue.closed_at)

\* !issue.pull_request && issue.closed_at, then closedAt >= fiftyTwoWeeksAgo
ClosedAccepted(issue, horizon) ==
    /\ ~issue.pull_request
    /\ Truthy(issue.closed_at)
    /\ DateGE(ParseDate(issue.closed_at), horizon)

\* data.forEach((issue) => { ... issueDates.push(createdAt) ... })
RECURSIVE OpenedForEach(_, _, _)
OpenedForEach(items, issueDates, horizon) ==
    IF items = <<>> THEN issueDates
    ELSE OpenedForEach(Tail(items),
             IF OpenedAccepted(Head(items), horizon)
             THEN Append(issueDates, ParseDate(Head(items).created_at))
             ELSE issueDates,
             horizon)

\* data.forEach((issue) => { ... closedDates.push(closedAt) ... })
RECURSIVE ClosedForEach(_, _, _)
ClosedForEach(items, closedDates, horizon) ==
    IF items = <<>> THEN closedDates
    ELSE ClosedForEach(Tail(items),
             IF ClosedAccepted(Head(items), horizon)
             THEN Append(closedDates, ParseDate(Head(items).closed_at))
             ELSE closedDates,
             horizon)

\* the forEach of operation o over one page
ForEach(o, items, acc, horizon) ==
    IF o = "fetchStarHistory" THEN StarsForEach(items, acc)
    ELSE IF o = "fetchIssuesOverTime" THEN OpenedForEach(items, acc, horizon)
    ELSE ClosedForEach(items, acc, horizon)

\* a loop that stops on an empty page only
NextHasMore_EmptyOnly(data, more) == IF NoData(data) THEN FALSE ELSE more

\* hasMore after a page: set to false by an empty or non-array body and by
\* data.length < 100
NextHasMore(data, more) ==
    IF NoData(data) THEN FALSE
    ELSE IF data.length < PerPage THEN FALSE
    ELSE more

\* page after a page: page++ in the else branch only
NextPage(data, p) == IF NoData(data) THEN p ELSE p + 1

\* while (hasMore && page <= maxPages)
LoopCondition(more, p, mp) == more /\ p <= mp

----------------------------------------------------------------------------
(* What the operations compute after their loop *)

\* fetchStarHistory without the sort: the first star fetched starts the series
StarSeries_Unsorted(starDates, nowSec) ==
    LET currentWeekStart == nowSec - JsMod(nowSec, secondsPerWeek)
        firstStarTime == GetTimeSec(starDates[1])
        firstWeekStart == firstStarTime - JsMod(firstStarTime, secondsPerWeek)
        weekToStars == CountWeeks(starDates, EmptyMap)
    IN  StarWeeks(firstWeekStart, currentWeekStart, weekToStars)

\* fetchStarHistory after the loop, for starDates.length > 0; nowSec is
\* Math.floor(Date.now() / 1000)
StarSeries(starDates, nowSec) ==
    LET sorted == SortDates(starDates)
        currentWeekStart == nowSec - JsMod(nowSec, secondsPerWeek)
        firstStarTime == GetTimeSec(sorted[1])
        firstWeekStart == firstStarTime - JsMod(firstStarTime, secondsPerWeek)
        weekToStars == CountWeeks(sorted, EmptyMap)
    IN  StarWeeks(firstWeekStart, currentWeekStart, weekToStars)

\* fetchIssuesOverTime / fetchIssuesClosedOverTime after the loop
IssueSeries(issueDates, horizon, nowSec) ==
    LET currentWeekStart == nowSec - JsMod(nowSec, secondsPerWeek)
        startWeek == GetTimeSec(horizon)
        firstWeekStart == startWeek - JsMod(startWeek, secondsPerWeek)
        weekToIssues == CountWeeks(issueDates, EmptyMap)
    IN  IssueWeeks(firstWeekStart, currentWeekStart, weekToIssues)

\* a loop that counts a contributor in every week it is listed with
RECURSIVE WeeksForEach_CountsIdle(_, _)
WeeksForEach_CountsIdle(weeks, acc) ==
    IF weeks = <<>> THEN acc
    ELSE LET week == Head(weeks)
         IN  WeeksForEach_CountsIdle(Tail(weeks),
                 [allWeeks |-> acc.allWeeks \cup {week.w},
                  weekToContributors |->
                      MapSet(acc.weekToContributors, week.w,
                             MapGet(acc.weekToContributors, week.w) + 1)])

\* for (const week of contributor.weeks) { allWeeks.add(week.w); ... }
RECURSIVE WeeksForEach(_, _)
WeeksForEach(weeks, acc) ==
    IF weeks = <<>> THEN acc
    ELSE LET week == Head(weeks)
         IN  WeeksForEach(Tail(weeks),
                 [allWeeks |-> acc.allWeeks \cup {week.w},
                  weekToContributors |->
                      IF week.c > 0
                      THEN MapSet(acc.weekToContributors, week.w,
                                  MapGet(acc.weekToContributors, week.w) + 1)
                      ELSE acc.weekToContributors])

\* data.forEach((contributor) => { for (const week of contributor.weeks) ... })
RECURSIVE ContributorsForEach(_, _)
ContributorsForEach(data, acc) ==
    IF data = <<>> THEN acc
    ELSE ContributorsForEach(Tail(data), WeeksForEach(Head(data).weeks, acc))

\* sortedWeeks.map((week) => ({ week, contributors: weekToContributors.get(week) || 0 }))
ContributorWeeks(sortedWeeks, weekToContributors) ==
    [i \in 1..Len(sortedWeeks) |->
        [week |-> sortedWeeks[i],
         contributors |-> MapGet(weekToContributors, sortedWeeks[i])]]

\* fetchContributorsOverTime after the checks of the response
ContributorSeries(data) ==
    LET acc == ContributorsForEach(data,
                   [allWeeks |-> {}, weekToContributors |-> EmptyMap])
        sortedWeeks == SortWeeks(acc.allWeeks)
    IN  ContributorWeeks(sortedWeeks, acc.weekToContributors)

\* data.map((week) => ({ week: week.week, total: week.total, days: week.days }))
CommitSeries(data) ==
    [i \in 1..Len(data) |->
        [week |-> data[i].week, total |-> data[i].total, days |-> data[i].days]]

\* the object fetchRepoInfo returns
RepoInfoOf(data) ==
    [owner |-> data.owner.login, name |-> data.name, fullName |-> data.full_name,
     description |-> data.description, stars |-> data.stargazers_count,
     forks |-> data.forks_count, openIssues |-> data.open_issues_count,
     language |-> data.language, updatedAt |-> data.updated_at]

\* a stats operation that maps whatever body it gets
StatsOutcome_NoEmptyCheck(o, data) ==
    [pc |-> "resolved",
     result |-> IF o = "fetchCommitActivity" THEN CommitSeries(data.items)
                ELSE ContributorSeries(data.items),
     error |-> NoError]

\* the settled state of a stats operation whose response is ok: the empty or
\* non-array body throws StatsComputingError
StatsOutcome(o, data) ==
    IF NoData(data)
    THEN [pc |-> "rejected", result |-> <<>>, error |-> StatsComputingError]
    ELSE [pc |-> "resolved",
          result |-> IF o = "fetchCommitActivity" THEN CommitSeries(data.items)
                     ELSE ContributorSeries(data.items),
          error |-> NoError]

----------------------------------------------------------------------------
(* The environment's inputs *)

Max(a, b) == IF a >= b THEN a ELSE b
SeqsUpTo(S, n) == UNION {[1..k -> S] : k \in 0..Max(n, 0)}

\* clock values, in the order the clock passes them: one on a whole second
\* before the week turns, one inside a second after it
ClockValues == {[s |-> Base - 100, ms |-> 0], [s |-> Base + 3500, ms |-> 500]}

\* changes of the local UTC offset between a day and the day 364 days before
OffsetChanges == {-3600, 0, 3600}

MaxPagesValues == {0, 1, 2, DefaultMaxPages}

\* the statuses the server answers with; the body of an error is not read
SuccessStatuses == {200, 202}
ErrorStatuses == {403, 404, 500}

\* response.statusText: the reason phrase, or "" when the protocol has none
ReasonPhrase(status) ==
    CASE status = 200 -> "OK"
      [] status = 202 -> "Accepted"
      [] status = 403 -> "Forbidden"
      [] status = 404 -> "Not Found"
      [] OTHER -> "Internal Server Error"

ErrorResponses ==
    {[status |-> st, statusText |-> ReasonPhrase(st), body |-> NotArray] :
        st \in ErrorStatuses}
    \cup {[status |-> 500, statusText |-> "", body |-> NotArray]}

PageLengths == {0, 57, PerPage}

StarTimes ==
    {Base - 3 * secondsPerWeek + 10, Base - secondsPerWeek + 20, Base + 50}
IssueTimes == {Base - DaysBack * secondsPerDay - 100, Base + 50}
ContributorWeekKeys ==
    {1000 * secondsPerWeek, 1001 * secondsPerWeek, 1003 * secondsPerWeek}

StarRecords == {[starred_at |-> ts] : ts \in StarTimes \cup {NoTimestamp}}

\* the records of the issues endpoint; each operation reads one of the two
\* timestamp fields only, and the other is held fixed
IssueFields ==
    {[ts |-> ts, pr |-> FALSE] : ts \in IssueTimes \cup {NoTimestamp}}
    \cup {[ts |-> Base + 50, pr |-> TRUE]}
IssueRecords(o) ==
    IF o = "fetchIssuesOverTime"
    THEN {[created_at |-> f.ts, closed_at |-> NoTimestamp, pull_request |-> f.pr] :
            f \in IssueFields}
    ELSE {[created_at |-> Base - 53 * secondsPerWeek, closed_at |-> f.ts,
           pull_request |-> f.pr] : f \in IssueFields}

Records(o) == IF o = "fetchStarHistory" THEN StarRecords ELSE IssueRecords(o)

\* a contributor's weeks: an ordered sequence, one entry per week key
WeekLists ==
    {ws \in SeqsUpTo([w : ContributorWeekKeys, c : {0, 3}],
                     Cardinality(ContributorWeekKeys)) :
        \A i \in 1..(Len(ws) - 1) : ws[i].w < ws[i + 1].w}
ContributorRecords == {[weeks |-> ws] : ws \in WeekLists}

CommitRecords ==
    {[week |-> 1000 * secondsPerWeek, total |-> 3, days |-> <<0, 1, 0, 2, 0, 0, 0>>],
     [week |-> 1001 * secondsPerWeek, total |-> 0, days |-> <<0, 0, 0, 0, 0, 0, 0>>]}

RepoData ==
    [owner |-> [login |-> RepoOwner], name |-> RepoName,
     full_name |-> RepoOwner \o "/" \o RepoName,
     description |-> "d", stargazers_count |-> 1, forks_count |-> 0,
     open_issues_count |-> 2, language |-> "l", updated_at |-> Base]

RECURSIVE SumItems(_)
SumItems(log) ==
    IF log = <<>> THEN 0 ELSE Len(Head(log).body.items) + SumItems(Tail(log))

FullPages(log) ==
    Cardinality({i \in DOMAIN log : log[i].body.isArray /\ log[i].body.length >= PerPage})

\* the bodies the server may answer a page request with, after the responses in log
PageBodies(o, log) ==
    {NotArray} \cup
    {ArrayOf(n, items) :
        n \in {m \in PageLengths : m < PerPage \/ FullPages(log) < MaxFullPages},
        items \in SeqsUpTo(Records(o), MaxEvents - SumItems(log))}

PageResponses(o, log) ==
    ErrorResponses
    \cup {[status |-> 200, statusText |-> ReasonPhrase(200), body |-> b] :
            b \in {b \in PageBodies(o, log) : Len(b.items) <= b.length}}

StatsBodies(o) ==
    {NotArray} \cup
    {ArrayOf(Len(items), items) :
        items \in SeqsUpTo(IF o = "fetchCommitActivity" THEN CommitRecords
                           ELSE ContributorRecords, MaxContributors)}

StatsResponses(o) ==
    ErrorResponses
    \cup {[status |-> st, statusText |-> ReasonPhrase(st), body |-> b] :
            st \in SuccessStatuses, b \in StatsBodies(o)}

RepoResponses ==
    ErrorResponses
    \cup {[status |-> 200, statusText |-> ReasonPhrase(200), body |-> RepoData]}

----------------------------------------------------------------------------
(* The state machine *)

Init ==
    /\ clock \in ClockValues
    /\ op = [t \in TaskIds |-> "none"]
    /\ pc = [t \in TaskIds |-> "idle"]
    /\ maxPages = [t \in TaskIds |-> 0]
    /\ page = [t \in TaskIds |-> 0]
    /\ hasMore = [t \in TaskIds |-> FALSE]
    /\ dates = [t \in TaskIds |-> <<>>]
    /\ fiftyTwoWeeksAgo = [t \in TaskIds |-> NoDate]
    /\ invokedAt = [t \in TaskIds |-> NoDate]
    /\ now = [t \in TaskIds |-> -1]
    /\ requested = [t \in TaskIds |-> <<>>]
    /\ received = [t \in TaskIds |-> <<>>]
    /\ result = [t \in TaskIds |-> <<>>]
    /\ error = [t \in TaskIds |-> NoError]

\* time passes while an operation is suspended in an await
Tick ==
    /\ \E t \in TaskIds : pc[t] = "await"
    /\ \E c \in ClockValues : /\ DateGE(c, clock)
                              /\ c # clock
                              /\ clock' = c
    /\ UNCHANGED <<op, pc, maxPages, page, hasMore, dates, fiftyTwoWeeksAgo,
                   invokedAt, now, requested, received, result, error>>

\* a call of fetchStarHistory, fetchIssuesOverTime or fetchIssuesClosedOverTime,
\* up to the first test of the loop condition
InvokePaginated(t, o, mp, offsetChange) ==
    /\ pc[t] = "idle"
    /\ o \in Paginated
    /\ o \in IssueOps \/ offsetChange = 0
    /\ op' = [op EXCEPT ![t] = o]
    /\ maxPages' = [maxPages EXCEPT ![t] = mp]
    /\ page' = [page EXCEPT ![t] = 1]
    /\ hasMore' = [hasMore EXCEPT ![t] = TRUE]
    /\ dates' = [dates EXCEPT ![t] = <<>>]
    /\ invokedAt' = [invokedAt EXCEPT ![t] = IF o \in IssueOps THEN clock ELSE NoDate]
    /\ fiftyTwoWeeksAgo' = [fiftyTwoWeeksAgo EXCEPT ![t] =
            IF o \in IssueOps THEN SetDateBack(clock, DaysBack, offsetChange)
            ELSE NoDate]
    /\ pc' = [pc EXCEPT ![t] = "loop"]
    /\ UNCHANGED <<clock, now, requested, received, result, error>>

\* the loop condition holds: the fetch of the page is issued and awaited
RequestPage(t) ==
    /\ pc[t] = "loop"
    /\ LoopCondition(hasMore[t], page[t], maxPages[t])
    /\ requested' = [requested EXCEPT ![t] = Append(@, page[t])]
    /\ pc' = [pc EXCEPT ![t] = "await"]
    /\ UNCHANGED <<clock, op, maxPages, page, hasMore, dates, fiftyTwoWeeksAgo,
                   invokedAt, now, received, result, error>>

\* a loop body whose accumulator is one array at module level, shared by all calls
OnPage_SharedAccumulator(t, response) ==
    /\ received' = [received EXCEPT ![t] = Append(@, response)]
    /\ IF PageFails(response)
       THEN /\ error' = [error EXCEPT ![t] = HttpError(op[t], response)]
            /\ pc' = [pc EXCEPT ![t] = "rejected"]
            /\ UNCHANGED <<dates, page, hasMore>>
       ELSE LET data == response.body
            IN  /\ dates' = [u \in TaskIds |->
                        IF NoData(data) THEN dates[t]
                        ELSE ForEach(op[t], data.items, dates[t], fiftyTwoWeeksAgo[t])]
                /\ page' = [page EXCEPT ![t] = NextPage(data, @)]
                /\ hasMore' = [hasMore EXCEPT ![t] = NextHasMore(data, @)]
                /\ pc' = [pc EXCEPT ![t] = "loop"]
                /\ UNCHANGED error
    /\ UNCHANGED <<clock, op, maxPages, fiftyTwoWeeksAgo, invokedAt, now,
                   requested, result>>

\* the rest of the loop body, from the response of the awaited fetch on
OnPage(t, response) ==
    /\ received' = [received EXCEPT ![t] = Append(@, response)]
    /\ IF PageFails(response)
       THEN /\ error' = [error EXCEPT ![t] = HttpError(op[t], response)]
            /\ pc' = [pc EXCEPT ![t] = "rejected"]
            /\ UNCHANGED <<dates, page, hasMore>>
       ELSE LET data == response.body
            IN  /\ dates' = [dates EXCEPT ![t] =
                        IF NoData(data) THEN @
                        ELSE ForEach(op[t], data.items, @, fiftyTwoWeeksAgo[t])]
                /\ page' = [page EXCEPT ![t] = NextPage(data, @)]
                /\ hasMore' = [hasMore EXCEPT ![t] = NextHasMore(data, @)]
                /\ pc' = [pc EXCEPT ![t] = "loop"]
                /\ UNCHANGED error
    /\ UNCHANGED <<clock, op, maxPages, fiftyTwoWeeksAgo, invokedAt, now,
                   requested, result>>

\* the response of a page request arrives
PageResponse(t) ==
    /\ pc[t] = "await"
    /\ op[t] \in Paginated
    /\ \E response \in PageResponses(op[t], received[t]) : OnPage(t, response)

\* fetchStarHistory leaves the loop and returns
StarsReturn(t) ==
    /\ pc[t] = "loop"
    /\ op[t] = "fetchStarHistory"
    /\ ~LoopCondition(hasMore[t], page[t], maxPages[t])
    /\ IF Len(dates[t]) = 0
       THEN /\ result' = [result EXCEPT ![t] = <<>>]
            /\ UNCHANGED now
       ELSE /\ now' = [now EXCEPT ![t] = GetTimeSec(clock)]
            /\ result' = [result EXCEPT ![t] = StarSeries(dates[t], GetTimeSec(clock))]
    /\ pc' = [pc EXCEPT ![t] = "resolved"]
    /\ UNCHANGED <<clock, op, maxPages, page, hasMore, dates, fiftyTwoWeeksAgo,
                   invokedAt, requested, received, error>>

\* fetchIssuesOverTime / fetchIssuesClosedOverTime leaves the loop and returns
IssuesReturn(t) ==
    /\ pc[t] = "loop"
    /\ op[t] \in IssueOps
    /\ ~LoopCondition(hasMore[t], page[t], maxPages[t])
    /\ now' = [now EXCEPT ![t] = GetTimeSec(clock)]
    /\ result' = [result EXCEPT ![t] =
            IssueSeries(dates[t], fiftyTwoWeeksAgo[t], GetTimeSec(clock))]
    /\ pc' = [pc EXCEPT ![t] = "resolved"]
    /\ UNCHANGED <<clock, op, maxPages, page, hasMore, dates, fiftyTwoWeeksAgo,
                   invokedAt, requested, received, error>>

\* a call of fetchRepoInfo, fetchCommitActivity or fetchContributorsOverTime,
\* up to its one awaited fetch
InvokeSingle(t, o) ==
    /\ pc[t] = "idle"
    /\ o \in Operations \ Paginated
    /\ op' = [op EXCEPT ![t] = o]
    /\ requested' = [requested EXCEPT ![t] = <<1>>]
    /\ pc' = [pc EXCEPT ![t] = "await"]
    /\ UNCHANGED <<clock, maxPages, page, hasMore, dates, fiftyTwoWeeksAgo,
                   invokedAt, now, received, result, error>>

\* fetchCommitActivity / fetchContributorsOverTime from the response on
OnStats(t, response) ==
    /\ received' = [received EXCEPT ![t] = Append(@, response)]
    /\ IF ~Ok(response.status)
       THEN /\ error' = [error EXCEPT ![t] = StatsHttpError(op[t], response)]
            /\ pc' = [pc EXCEPT ![t] = "rejected"]
            /\ UNCHANGED result
       ELSE LET outcome == StatsOutcome(op[t], response.body)
            IN  /\ pc' = [pc EXCEPT ![t] = outcome.pc]
                /\ result' = [result EXCEPT ![t] = outcome.result]
                /\ error' = [error EXCEPT ![t] = outcome.error]
    /\ UNCHANGED <<clock, op, maxPages, page, hasMore, dates, fiftyTwoWeeksAgo,
                   invokedAt, now, requested>>

\* the response of fetchCommitActivity / fetchContributorsOverTime arrives
StatsResponse(t) ==
    /\ pc[t] = "await"
    /\ op[t] \in StatsOps
    /\ \E response \in StatsResponses(op[t]) : OnStats(t, response)

\* fetchRepoInfo from the response on
OnRepoInfo(t, response) ==
    /\ received' = [received EXCEPT ![t] = Append(@, response)]
    /\ IF ~Ok(response.status)
       THEN /\ error' = [error EXCEPT ![t] = HttpError(op[t], response)]
            /\ pc' = [pc EXCEPT ![t] = "rejected"]
            /\ UNCHANGED result
       ELSE /\ result' = [result EXCEPT ![t] = RepoInfoOf(response.body)]
            /\ pc' = [pc EXCEPT ![t] = "resolved"]
            /\ UNCHANGED error
    /\ UNCHANGED <<clock, op, maxPages, page, hasMore, dates, fiftyTwoWeeksAgo,
                   invokedAt, now, requested>>

\* the response of fetchRepoInfo arrives
RepoInfoResponse(t) ==
    /\ pc[t] = "await"
    /\ op[t] = "fetchRepoInfo"
    /\ \E response \in RepoResponses : OnRepoInfo(t, response)

\* the steps of task t
TaskNext(t) ==
    \/ \E o \in Paginated, mp \in MaxPagesValues, oc \in OffsetChanges :
            InvokePaginated(t, o, mp, oc)
    \/ RequestPage(t)
    \/ PageResponse(t)
    \/ StarsReturn(t)
    \/ IssuesReturn(t)
    \/ \E o \in Operations \ Paginated : InvokeSingle(t, o)
    \/ StatsResponse(t)
    \/ RepoInfoResponse(t)

\* one operation runs
Next == Tick \/ TaskNext(1)

Spec == Init /\ [][Next]_vars

----------------------------------------------------------------------------
(* Several operations in flight at once: every call is a task of its own,   *)
(* and the tasks interleave at their awaits.  The inputs are a part of the  *)
(* inputs of Spec: one operation of each shape (the star loop, the issue    *)
(* loop with its horizon, the single fetch of a stats endpoint), a ceiling  *)
(* of two pages, pages of 57 or 100 records of which one carries data, one  *)
(* stats body, and the failure 404.                                         *)

ConcurrentPaginated == {"fetchStarHistory", "fetchIssuesOverTime"}
ConcurrentSingle == {"fetchContributorsOverTime"}

ConcurrentItems(o) ==
    IF o = "fetchStarHistory" THEN <<[starred_at |-> Base - secondsPerWeek + 20]>>
    ELSE <<[created_at |-> Base + 50, closed_at |-> NoTimestamp, pull_request |-> FALSE]>>

ConcurrentPageResponses(o) ==
    {[status |-> 404, statusText |-> ReasonPhrase(404), body |-> NotArray]}
    \cup {[status |-> 200, statusText |-> ReasonPhrase(200),
           body |-> ArrayOf(n, ConcurrentItems(o))] : n \in PageLengths \ {0}}

ConcurrentStatsItems == <<[weeks |-> <<[w |-> 1000 * secondsPerWeek, c |-> 3]>>]>>

ConcurrentStatsResponses ==
    {[status |-> 404, statusText |-> ReasonPhrase(404), body |-> NotArray],
     [status |-> 200, statusText |-> ReasonPhrase(200),
      body |-> ArrayOf(1, ConcurrentStatsItems)]}

ConcurrentPageResponse(t) ==
    /\ pc[t] = "await"
    /\ op[t] \in Paginated
    /\ \E response \in ConcurrentPageResponses(op[t]) : OnPage(t, response)

ConcurrentStatsResponse(t) ==
    /\ pc[t] = "await"
    /\ op[t] \in StatsOps
    /\ \E response \in ConcurrentStatsResponses : OnStats(t, response)

ConcurrentTaskNext(t) ==
    \/ \E o \in ConcurrentPaginated : InvokePaginated(t, o, 2, 0)
    \/ RequestPage(t)
    \/ ConcurrentPageResponse(t)
    \/ StarsReturn(t)
    \/ IssuesReturn(t)
    \/ \E o \in ConcurrentSingle : InvokeSingle(t, o)
    \/ ConcurrentStatsResponse(t)

ConcurrentNext == Tick \/ \E t \in TaskIds : ConcurrentTaskNext(t)

SpecConcurrent == Init /\ [][ConcurrentNext]_vars

----------------------------------------------------------------------------
(* Vocabulary of the properties, written without the operators above *)

WeekSeconds == 604800
PageSize == 100

\* the bucket of a non-negative timestamp
Bucket(ts) == ts - (ts % WeekSeconds)

\* a non-success response
Failed(response) == response.status < 200 \/ response.status > 299

\* the number of items a body returns
ItemCount(body) == IF body.isArray THEN body.length ELSE 0

\* the lengths of the pages received, in order
PageSizes(t) == [i \in DOMAIN received[t] |-> ItemCount(received[t][i].body)]

\* the indexes of the pages that returned fewer than 100 items
ShortPages(t) == {i \in DOMAIN received[t] : ItemCount(received[t][i].body) < PageSize}

\* min(maxPages, k), k the index of the first short page (no bound when there is none)
ExpectedRequests(t) ==
    IF ShortPages(t) = {} THEN maxPages[t]
    ELSE LET k == CHOOSE i \in ShortPages(t) : \A j \in ShortPages(t) : i <= j
         IN  IF maxPages[t] <= k THEN maxPages[t] ELSE k

AllSucceeded(t) == \A i \in DOMAIN received[t] : ~Failed(received[t][i])

----------------------------------------------------------------------------
(* C1: in a paginated operation whose responses are all successful, the     *)
(* pages are requested in the order 1, 2, 3, ... up to the ceiling, no page *)
(* is requested after a page of fewer than 100 items, and when the          *)
(* operation returns it has issued exactly min(maxPages, k) requests, k the *)
(* index of the first page of fewer than 100 items; so three requests for   *)
(* pages of 100, 100 and 57 items under a ceiling of 10.                    *)
C1_PageRequests ==
    \A t \in TaskIds :
        (op[t] \in Paginated /\ AllSucceeded(t)) =>
            /\ \A i \in DOMAIN requested[t] :
                    /\ requested[t][i] = i
                    /\ i <= maxPages[t]
                    /\ \A j \in 1..(i - 1) : ItemCount(received[t][j].body) >= PageSize
            /\ pc[t] = "resolved" => Len(requested[t]) = ExpectedRequests(t)
            /\ (pc[t] = "resolved" /\ maxPages[t] = 10 /\ PageSizes(t) = <<100, 100, 57>>)
                    => Len(requested[t]) = 3

C1_Witness ==
    \E t \in TaskIds :
        /\ op[t] \in Paginated
        /\ pc[t] = "resolved"
        /\ maxPages[t] = 10
        /\ PageSizes(t) = <<100, 100, 57>>
        /\ requested[t] = <<1, 2, 3>>

(* C2: in a paginated operation, a non-success response to any page request *)
(* rejects the operation with an error; it is the last response, no request *)
(* follows it, and no series is returned, whatever was accumulated before.  *)
C2_FailureRejects ==
    \A t \in TaskIds :
        op[t] \in Paginated =>
            \A i \in DOMAIN received[t] :
                Failed(received[t][i]) =>
                    /\ pc[t] = "rejected"
                    /\ error[t] # NoError
                    /\ result[t] = <<>>
                    /\ i = Len(received[t])
                    /\ Len(requested[t]) = i

C2_Witness ==
    \E t \in TaskIds :
        /\ op[t] \in Paginated
        /\ pc[t] = "rejected"
        /\ Len(received[t]) >= 2
        /\ Failed(received[t][Len(received[t])])
        /\ dates[t] # <<>>

\* the records of all pages received, in order
RECURSIVE Concat(_)
Concat(log) == IF log = <<>> THEN <<>> ELSE Head(log).body.items \o Concat(Tail(log))
Fetched(t) == Concat(received[t])

\* the one response of a stats operation, once it has arrived
Answered(t) == received[t] # <<>>
Answer(t) == received[t][1]

(* C3: when the commit-activity or the contributors endpoint answers with   *)
(* status 202, the operation rejects with StatsComputingError, whatever the *)
(* body of the response is.                                                 *)
C3_Status202RejectsStatsComputing ==
    \A t \in TaskIds :
        (op[t] \in StatsOps /\ Answered(t) /\ Answer(t).status = 202) =>
            /\ pc[t] = "rejected"
            /\ error[t].name = "StatsComputingError"

(* C4, as claimed: zero raw events give an empty series and no error, for   *)
(* the stars when no stargazer record is fetched and for the contributors   *)
(* when the source returns zero contributor records.                        *)
C4_EmptyInputAsClaimed ==
    \A t \in TaskIds :
        /\ (op[t] = "fetchStarHistory" /\ pc[t] \in {"resolved", "rejected"}
                /\ AllSucceeded(t) /\ Fetched(t) = <<>>)
              => (pc[t] = "resolved" /\ result[t] = <<>>)
        /\ (op[t] = "fetchContributorsOverTime" /\ Answered(t) /\ ~Failed(Answer(t))
                /\ Answer(t).body.isArray /\ Answer(t).body.length = 0)
              => (pc[t] = "resolved" /\ result[t] = <<>>)

(* C4, amended: no star record with a starred_at gives the empty series and *)
(* no error; contributor records that list no week give the empty series;   *)
(* zero contributor records (an empty or non-array body) reject with        *)
(* StatsComputingError and return no series.                                *)
C4_EmptyInput ==
    \A t \in TaskIds :
        /\ (op[t] = "fetchStarHistory" /\ pc[t] \in {"resolved", "rejected"}
                /\ AllSucceeded(t)
                /\ \A i \in DOMAIN Fetched(t) : Fetched(t)[i].starred_at = NoTimestamp)
              => (pc[t] = "resolved" /\ result[t] = <<>>)
        /\ (op[t] = "fetchContributorsOverTime" /\ Answered(t) /\ ~Failed(Answer(t)))
              => LET body == Answer(t).body
                 IN  /\ ItemCount(body) = 0
                        => (pc[t] = "rejected" /\ error[t] = StatsComputingError
                            /\ result[t] = <<>>)
                     /\ (ItemCount(body) > 0
                            /\ \A i \in DOMAIN body.items : body.items[i].weeks = <<>>)
                        => (pc[t] = "resolved" /\ result[t] = <<>>)

C4_Witness ==
    \E t \in TaskIds :
        /\ op[t] = "fetchContributorsOverTime"
        /\ Answered(t)
        /\ Answer(t).status = 200
        /\ Answer(t).body.isArray
        /\ Answer(t).body.length = 0
        /\ pc[t] = "rejected"
        /\ error[t] = StatsComputingError

\* the week keys the contributor records of the answer list
ListedWeeks(t) ==
    LET data == Answer(t).body.items
    IN  UNION {{data[i].weeks[k].w : k \in DOMAIN data[i].weeks} : i \in DOMAIN data}

SeriesOps == Paginated \cup {"fetchContributorsOverTime"}

(* C5, as claimed: in every series returned by the contributors, stars,     *)
(* issues-opened and issues-closed operations, consecutive points are       *)
(* exactly 604800 seconds apart.                                            *)
C5_DensityAsClaimed ==
    \A t \in TaskIds :
        (op[t] \in SeriesOps /\ pc[t] = "resolved") =>
            \A i \in 1..(Len(result[t]) - 1) :
                result[t][i + 1].week - result[t][i].week = WeekSeconds

(* C5, amended: consecutive points of a star, issues-opened or              *)
(* issues-closed series are exactly 604800 seconds apart; a contributor     *)
(* series is strictly increasing without duplicate weeks, and two           *)
(* consecutive points are consecutive listed week keys, 604800 seconds      *)
(* apart only where the source lists the following week.                    *)
C5_Density ==
    \A t \in TaskIds :
        /\ (op[t] \in Paginated /\ pc[t] = "resolved") =>
              \A i \in 1..(Len(result[t]) - 1) :
                  result[t][i + 1].week - result[t][i].week = WeekSeconds
        /\ (op[t] = "fetchContributorsOverTime" /\ pc[t] = "resolved") =>
              LET listed == ListedWeeks(t)
              IN  \A i \in 1..(Len(result[t]) - 1) :
                      LET this == result[t][i].week
                          next == result[t][i + 1].week
                      IN  /\ this < next
                          /\ ~\E w \in listed : this < w /\ w < next
                          /\ (next - this = WeekSeconds)
                                <=> (this + WeekSeconds \in listed)

C5_Witness ==
    \E t \in TaskIds :
        /\ op[t] = "fetchStarHistory"
        /\ pc[t] = "resolved"
        /\ Len(result[t]) >= 3
        /\ \E i \in DOMAIN result[t] : result[t][i].stars = 0

\* the timestamps of the star records fetched that carry a starred_at
StarTimestamps(t) ==
    LET all == Fetched(t)
    IN  {<<i, all[i].starred_at>> : i \in {j \in DOMAIN all : all[j].starred_at # NoTimestamp}}

C7_FullHorizonSeries ==
    \A t \in TaskIds :
        (op[t] \in IssueOps /\ pc[t] = "resolved") =>
            /\ result[t] # <<>>
            /\ result[t][1].week = Bucket(invokedAt[t].s - 52 * WeekSeconds)
            /\ result[t][Len(result[t])].week = Bucket(now[t])
            /\ \A i \in 1..(Len(result[t]) - 1) :
                    result[t][i + 1].week - result[t][i].week = WeekSeconds

\* the timestamp field an issue operation reads
IssueTimestamp(o, issue) ==
    IF o = "fetchIssuesOverTime" THEN issue.created_at ELSE issue.closed_at

\* the value of a point of a star or issue series
PointValue(o, point) == IF o = "fetchStarHistory" THEN point.stars ELSE point.issues

\* a sequence without its pull-request records
RECURSIVE WithoutPullRequests(_)
WithoutPullRequests(items) ==
    IF items = <<>> THEN <<>>
    ELSE IF Head(items).pull_request THEN WithoutPullRequests(Tail(items))
    ELSE <<Head(items)>> \o WithoutPullRequests(Tail(items))

(* C8: a returned issues-opened or issues-closed series is the series the   *)
(* same pages give with every pull-request record removed, and no bucket    *)
(* counts more than the fetched records that are not pull requests and      *)
(* whose timestamp falls in it.                                             *)
C8_PullRequestsExcluded ==
    \A t \in TaskIds :
        (op[t] \in IssueOps /\ pc[t] = "resolved") =>
            LET fetched == Fetched(t)
                issues == {j \in DOMAIN fetched :
                              /\ ~fetched[j].pull_request
                              /\ IssueTimestamp(op[t], fetched[j]) # NoTimestamp}
                stripped == IssueSeries(ForEach(op[t], WithoutPullRequests(fetched), <<>>,
                                                fiftyTwoWeeksAgo[t]),
                                        fiftyTwoWeeksAgo[t], now[t])
            IN  /\ result[t] = stripped
                /\ \A i \in DOMAIN result[t] :
                      result[t][i].issues <=
                          Cardinality({j \in issues :
                              Bucket(IssueTimestamp(op[t], fetched[j])) = result[t][i].week})

C8_Witness ==
    \E t \in TaskIds :
        /\ op[t] \in IssueOps
        /\ pc[t] = "resolved"
        /\ \E j \in DOMAIN Fetched(t) :
              /\ Fetched(t)[j].pull_request
              /\ IssueTimestamp(op[t], Fetched(t)[j]) # NoTimestamp
              /\ IssueTimestamp(op[t], Fetched(t)[j]) > fiftyTwoWeeksAgo[t].s
              /\ \E i \in DOMAIN result[t] :
                    /\ result[t][i].week = Bucket(IssueTimestamp(op[t], Fetched(t)[j]))
                    /\ result[t][i].issues = 0

C10_BucketAlignment ==
    \A t \in TaskIds :
        /\ op[t] \in Paginated =>
              \A j \in DOMAIN dates[t] :
                  LET ts == dates[t][j].s
                      b == WeekStart(ts)
                  IN  ts >= 0 => /\ b % WeekSeconds = 0
                                 /\ b <= ts
                                 /\ ts < b + WeekSeconds
        /\ (op[t] \in Paginated /\ pc[t] = "resolved") =>
              \A i \in DOMAIN result[t] :
                  /\ result[t][i].week % WeekSeconds = 0
                  /\ PointValue(op[t], result[t][i]) =
                        Cardinality({j \in DOMAIN dates[t] :
                            /\ result[t][i].week <= dates[t][j].s
                            /\ dates[t][j].s < result[t][i].week + WeekSeconds})

C10_Witness ==
    \E t \in TaskIds :
        /\ op[t] \in Paginated
        /\ pc[t] = "resolved"
        /\ \E i \in DOMAIN result[t], j \in DOMAIN dates[t] :
              /\ PointValue(op[t], result[t][i]) > 0
              /\ result[t][i].week < dates[t][j].s
              /\ dates[t][j].s < result[t][i].week + WeekSeconds

\* the instant of a timestamp of second precision (ts seconds, 0 ms) is at or
\* after the instant d
AtOrAfter(ts, d) == IF d.ms = 0 THEN ts >= d.s ELSE ts > d.s

\* the indexes of the fetched issue records that are not pull requests, carry
\* the timestamp the operation reads, and carry it at or after the horizon
Countable(t) ==
    LET fetched == Fetched(t)
    IN  {j \in DOMAIN fetched :
            /\ ~fetched[j].pull_request
            /\ IssueTimestamp(op[t], fetched[j]) # NoTimestamp
            /\ AtOrAfter(IssueTimestamp(op[t], fetched[j]), fiftyTwoWeeksAgo[t])}

(* C11: in the issues-opened and issues-closed operations the accumulator   *)
(* holds the timestamp of exactly the fetched records that are not pull     *)
(* requests and carry the relevant timestamp (created_at, closed_at) at or  *)
(* after the horizon computed at invocation; a record without that          *)
(* timestamp or with an earlier one raises no error, and the value of each  *)
(* point of the returned series is the number of the other records in its   *)
(* bucket.                                                                  *)
C11_HorizonFilter ==
    \A t \in TaskIds :
        op[t] \in IssueOps =>
            LET fetched == Fetched(t)
                countable == Countable(t)
            IN  /\ Len(dates[t]) = Cardinality(countable)
                /\ \A k \in DOMAIN dates[t] :
                      \E j \in countable :
                          /\ dates[t][k] = [s |-> IssueTimestamp(op[t], fetched[j]), ms |-> 0]
                          /\ Cardinality({i \in countable : i <= j}) = k
                /\ AllSucceeded(t) => (pc[t] # "rejected" /\ error[t] = NoError)
                /\ pc[t] = "resolved" =>
                      \A i \in DOMAIN result[t] :
                          result[t][i].issues =
                              Cardinality({j \in countable :
                                  Bucket(IssueTimestamp(op[t], fetched[j]))
                                      = result[t][i].week})

C11_Witness ==
    \E t \in TaskIds :
        /\ op[t] = "fetchIssuesClosedOverTime"
        /\ pc[t] = "resolved"
        /\ fiftyTwoWeeksAgo[t].ms > 0
        /\ \E j, k \in DOMAIN Fetched(t) :
              /\ ~Fetched(t)[j].pull_request
              /\ Fetched(t)[j].closed_at = NoTimestamp
              /\ ~Fetched(t)[k].pull_request
              /\ Fetched(t)[k].closed_at = fiftyTwoWeeksAgo[t].s
        /\ dates[t] = <<>>
        /\ \A i \in DOMAIN result[t] : result[t][i].issues = 0

\* the last response an operation received
LastResponse(t) == received[t][Len(received[t])]

\* the error kind a non-success status stands for
KindOfStatus(status) ==
    IF status = 404 THEN "NotFound"
    ELSE IF status = 403 THEN "RateLimited"
    ELSE "TransientFetchFailure"

\* what a caller can test on the error it catches
StartsWith(str, prefix) ==
    Len(str) >= Len(prefix) /\ SubSeq(str, 1, Len(prefix)) = prefix
IsStatsComputing(e) == e.name = "StatsComputingError"
IsNotFound(e) == e.name = "Error" /\ StartsWith(e.message, "Repository ")
IsRateLimited(e) == e.name = "Error" /\ StartsWith(e.message, "GitHub API rate limit exceeded")
IsTransient(e) == e.name = "Error" /\ StartsWith(e.message, "Failed to fetch ")

\* the kinds whose test the error passes
KindsOf(e) ==
    {k \in {"NotFound", "RateLimited", "TransientFetchFailure", "StatsComputing"} :
        \/ k = "NotFound" /\ IsNotFound(e)
        \/ k = "RateLimited" /\ IsRateLimited(e)
        \/ k = "TransientFetchFailure" /\ IsTransient(e)
        \/ k = "StatsComputing" /\ IsStatsComputing(e)}

(* C12: in every operation a non-success response rejects it with an error  *)
(* whose kind follows from the status alone: NotFound for 404, RateLimited  *)
(* for 403, TransientFetchFailure for any other non-success status; the     *)
(* error passes the test of that kind and of no other kind, and an error of *)
(* the kind StatsComputing comes from a success response only.              *)
C12_ErrorKinds ==
    \A t \in TaskIds :
        /\ (received[t] # <<>> /\ Failed(LastResponse(t))) =>
              /\ pc[t] = "rejected"
              /\ KindsOf(error[t]) = {KindOfStatus(LastResponse(t).status)}
        /\ pc[t] = "rejected" =>
              /\ Cardinality(KindsOf(error[t])) = 1
              /\ IsStatsComputing(error[t]) <=> ~Failed(LastResponse(t))

C12_Witness ==
    \E t \in TaskIds :
        /\ op[t] \in Paginated
        /\ pc[t] = "rejected"
        /\ Len(received[t]) = 2
        /\ LastResponse(t).status = 403
        /\ error[t].message = "GitHub API rate limit exceeded. Try again later."

\* the loop of a paginated operation run by itself over the responses of log,
\* from the locals st = [page, hasMore, dates, error, consumed]
RECURSIVE RunAlone(_, _, _, _, _)
RunAlone(o, mp, horizon, log, st) ==
    IF log = <<>> \/ st.error # NoError \/ ~LoopCondition(st.hasMore, st.page, mp)
    THEN st
    ELSE LET response == Head(log)
             data == response.body
         IN  IF ~Ok(response.status)
             THEN [st EXCEPT !.error = HttpError(o, response), !.consumed = @ + 1]
             ELSE RunAlone(o, mp, horizon, Tail(log),
                     [page |-> NextPage(data, st.page),
                      hasMore |-> NextHasMore(data, st.hasMore),
                      dates |-> IF NoData(data) THEN st.dates
                                ELSE ForEach(o, data.items, st.dates, horizon),
                      error |-> NoError,
                      consumed |-> st.consumed + 1])

\* the locals of a paginated operation before its loop
FreshLocals ==
    [page |-> 1, hasMore |-> TRUE, dates |-> <<>>, error |-> NoError, consumed |-> 0]

\* what a paginated operation returns from its accumulator and its clock read
SeriesAlone(o, acc, horizon, nowSec) ==
    IF o = "fetchStarHistory"
    THEN (IF acc = <<>> THEN <<>> ELSE StarSeries(acc, nowSec))
    ELSE IssueSeries(acc, horizon, nowSec)

(* C13: with several operations in flight, interleaved at their awaits in   *)
(* any order, the page counter, the accumulator, the error and the result   *)
(* of each operation are those the operation has when it runs by itself     *)
(* over the responses it received and the clock values it read.             *)
C13_Isolation ==
    \A t \in TaskIds :
        /\ op[t] \in Paginated =>
              LET alone == RunAlone(op[t], maxPages[t], fiftyTwoWeeksAgo[t],
                                    received[t], FreshLocals)
              IN  /\ alone.consumed = Len(received[t])
                  /\ page[t] = alone.page
                  /\ hasMore[t] = alone.hasMore
                  /\ dates[t] = alone.dates
                  /\ error[t] = alone.error
                  /\ (pc[t] = "rejected") <=> (alone.error # NoError)
                  /\ pc[t] = "rejected" => result[t] = <<>>
                  /\ pc[t] = "resolved" =>
                        /\ ~LoopCondition(alone.hasMore, alone.page, maxPages[t])
                        /\ result[t] = SeriesAlone(op[t], alone.dates,
                                                   fiftyTwoWeeksAgo[t], now[t])
        /\ (op[t] \in StatsOps /\ Answered(t)) =>
              IF Failed(Answer(t))
              THEN pc[t] = "rejected" /\ error[t] = StatsHttpError(op[t], Answer(t))
              ELSE LET outcome == StatsOutcome(op[t], Answer(t).body)
                   IN  /\ pc[t] = outcome.pc
                       /\ result[t] = outcome.result
                       /\ error[t] = outcome.error

\* two issue operations, both invoked before the clock moved and both
\* returned after it, each with the records of its own pages only
C13_Witness ==
    /\ op[1] = "fetchIssuesOverTime"
    /\ op[2] = "fetchIssuesOverTime"
    /\ pc[1] = "resolved"
    /\ pc[2] = "resolved"
    /\ PageSizes(1) = <<100, 57>>
    /\ PageSizes(2) = <<57>>
    /\ invokedAt[1] = invokedAt[2]
    /\ now[1] > invokedAt[1].s
    /\ now[2] > invokedAt[2].s
    /\ Len(dates[1]) = 2
    /\ Len(dates[2]) = 1

\* the sum of the values of a star or issue series
RECURSIVE SumValues(_, _)
SumValues(o, series) ==
    IF series = <<>> THEN 0
    ELSE PointValue(o, Head(series)) + SumValues(o, Tail(series))

\* the timestamps of the fetched records that count, with their positions:
\* star records with a starred_at, issue records that passed the filter
AcceptedEvents(t) ==
    IF op[t] = "fetchStarHistory" THEN StarTimestamps(t)
    ELSE LET fetched == Fetched(t)
         IN  {<<j, IssueTimestamp(op[t], fetched[j])>> : j \in Countable(t)}

====
